---- MODULE Spec2Model ----
(***************************************************************************)
(* Model of libraries/vote/ballot_box.cpp: three durable record stores     *)
(* (decision_db, ballot_db, contest_db), the in-memory secondary indices   *)
(* derived from them, and the public ballot_box facade that drives them.   *)
(***************************************************************************)
EXTENDS Integers, Sequences, FiniteSets, TLC

VARIABLES
  databases_open,               \* ballot_box_impl::databases_open
  decision_db,                  \* [is_open, data]: level_map<digest, signed_voter_decision>
  ballot_db,                    \* [is_open, data]: level_map<digest, ballot>
  contest_db,                   \* [is_open, data]: level_map<digest, contest>
  decision_index,               \* decision_index_records in insertion order, unique by id
  write_in_index,               \* multimap<string, digest>, kept as a key-ordered sequence
  ballot_by_contest_index,      \* multimap<digest, digest>
  contest_by_contestant_index,  \* multimap<string, digest>
  contest_tags_index,           \* ordered_non_unique by (key, value)
  last,                         \* the most recent facade call and its outcome
  prev                          \* the facade call before it

vars == <<databases_open, decision_db, ballot_db, contest_db, decision_index,
          write_in_index, ballot_by_contest_index, contest_by_contestant_index,
          contest_tags_index, last, prev>>

----------------------------------------------------------------------------
(* Bounds *)

\* largest number of entries a single multimap index may hold in the model
MaxEntries == 4

----------------------------------------------------------------------------
(* Strings are sequences of character codes; std::string's operator< is     *)
(* lexicographic with a proper prefix ordered first.                        *)

EmptyStr == <<>>
Alice    == <<1>>
Bob      == <<1, 2>>
Carol    == <<2>>
region   == <<1, 1>>
type     == <<2, 1>>
north    == <<1>>
south    == <<2>>

StrLess(a, b) ==
  \E i \in 1..(Len(a) + 1) :
     /\ i <= Len(b)
     /\ \A j \in 1..(i - 1) : a[j] = b[j]
     /\ (i = Len(a) + 1 \/ a[i] < b[i])

DigestLess(a, b) == a < b

Range(s) == { s[i] : i \in 1..Len(s) }

\* ascending enumeration of a finite set of numbers
RECURSIVE SortedSeq(_)
SortedSeq(S) ==
  IF S = {} THEN <<>>
  ELSE LET m == CHOOSE x \in S : \A y \in S : x <= y
       IN  <<m>> \o SortedSeq(S \ {m})

----------------------------------------------------------------------------
(* Records and their content-derived identifiers.  A digest is modelled by  *)
(* an injective positional encoding of the record's content.                *)

RECURSIVE StrCode(_)
StrCode(s) == IF s = <<>> THEN 0 ELSE s[1] + 3 * StrCode(Tail(s))

RECURSIVE NamesCode(_)
NamesCode(ns) ==
  IF ns = <<>> THEN 0 ELSE (StrCode(ns[1]) + 1) + 16 * NamesCode(Tail(ns))

RECURSIVE IdsCode(_)
IdsCode(ids) ==
  IF ids = <<>> THEN 0 ELSE (ids[1] + 1) + 5 * IdsCode(Tail(ids))

RECURSIVE TagsCode(_)
TagsCode(ts) ==
  IF ts = <<>> THEN 0
  ELSE (StrCode(ts[1][1]) + 16 * StrCode(ts[1][2]) + 1) + 257 * TagsCode(Tail(ts))

\* signed_voter_decision(): the default-constructed decision
DefaultDecision ==
  [signer |-> 0, contest_id |-> 0, ballot_id |-> 0, write_in_names |-> <<>>]

\* signed_voter_decision::digest()
digest(d) ==
  1 + d.signer + 4 * (d.contest_id + 4 * (d.ballot_id + 4 * NamesCode(d.write_in_names)))

\* signed_voter_decision::voter_public_key()
voter_public_key(d) == d.signer

\* address(public_key_type)
address(key) == 2 * key + 1

\* ballot::id()
ballot_id(b) == 1 + IdsCode(b.contests)

\* contest::id()
contest_id(c) == 1 + NamesCode(c.contestants) + 4096 * TagsCode(c.tags)

\* the decisions, ballots and contests callers submit
Decisions ==
  { [signer |-> 1, contest_id |-> 1, ballot_id |-> 1, write_in_names |-> <<Alice>>],
    [signer |-> 2, contest_id |-> 1, ballot_id |-> 2, write_in_names |-> <<Alice, Carol>>] }

Ballots ==
  { [contests |-> <<1>>], [contests |-> <<1, 2>>] }

Contests ==
  { [contestants |-> <<Bob>>,
     tags |-> << <<region, north>>, <<region, south>> >>],
    [contestants |-> <<Bob, Carol>>,
     tags |-> << <<region, north>>, <<type, EmptyStr>> >>] }

Voters      == { address(k) : k \in 0..2 }
DigestArgs  == 0..2
Names       == { EmptyStr, Alice, Bob, Carol }
TagKeys     == { region, type }
TagValues   == { EmptyStr, north, south }

----------------------------------------------------------------------------
(* Durable Record Store (bts::db::level_map)                                *)

ClosedStore(data) == [is_open |-> FALSE, data |-> data]

\* level_map::store: upsert
db_store(db, id, rec) ==
  [db EXCEPT !.data = [k \in (DOMAIN db.data) \cup {id} |->
                          IF k = id THEN rec ELSE db.data[k]]]

\* level_map::fetch succeeds exactly on the identifiers present in an open store
db_has(db, id) == db.is_open /\ id \in DOMAIN db.data

\* level_map::begin() .. ++itr: the keys in ascending order
db_keys(db) == SortedSeq(DOMAIN db.data)

\* level_map::remove of every key met by a full iteration
db_wipe(db) == [db EXCEPT !.data = << >>]

\* level_map::remove of the first n keys met by the iteration
db_remove_first(db, n) ==
  LET keys == db_keys(db)
      gone == { keys[i] : i \in 1 .. (IF n < Len(keys) THEN n ELSE Len(keys)) }
  IN  [db EXCEPT !.data = [k \in (DOMAIN db.data) \ gone |-> db.data[k]]]

----------------------------------------------------------------------------
(* std::multimap / ordered_non_unique as key-ordered sequences of <<k, v>>  *)

\* the key order of a multimap: std::less<string> or std::less<digest_type>
KeyLess(kind, a, b) == IF kind = "string" THEN StrLess(a, b) ELSE DigestLess(a, b)

\* first position whose key is not less than k
lower_bound(s, k, kind) ==
  IF \E i \in 1..Len(s) : ~KeyLess(kind, s[i][1], k)
  THEN CHOOSE i \in 1..Len(s) :
         /\ ~KeyLess(kind, s[i][1], k)
         /\ \A j \in 1..(i - 1) : KeyLess(kind, s[j][1], k)
  ELSE Len(s) + 1

\* first position whose key is greater than k
upper_bound(s, k, kind) ==
  IF \E i \in 1..Len(s) : KeyLess(kind, k, s[i][1])
  THEN CHOOSE i \in 1..Len(s) :
         /\ KeyLess(kind, k, s[i][1])
         /\ \A j \in 1..(i - 1) : ~KeyLess(kind, k, s[j][1])
  ELSE Len(s) + 1

\* variant: a pair already present is not inserted again
multimap_insert_unique(s, k, v, kind) ==
  IF \E i \in 1..Len(s) : s[i] = <<k, v>> THEN s
  ELSE LET p == upper_bound(s, k, kind)
       IN  SubSeq(s, 1, p - 1) \o << <<k, v>> >> \o SubSeq(s, p, Len(s))

\* variant: std::map semantics, the new pair replaces the pairs of its key
multimap_insert_replacing(s, k, v, kind) ==
  LET lo == lower_bound(s, k, kind)
      hi == upper_bound(s, k, kind)
  IN  SubSeq(s, 1, lo - 1) \o << <<k, v>> >> \o SubSeq(s, hi, Len(s))

\* multimap::insert: after the last element with an equivalent key
multimap_insert(s, k, v, kind) ==
  LET p == upper_bound(s, k, kind)
  IN  SubSeq(s, 1, p - 1) \o << <<k, v>> >> \o SubSeq(s, p, Len(s))

\* multimap::equal_range followed by pushing back each mapped value
equal_range_values(s, k, kind) ==
  LET r == SubSeq(s, lower_bound(s, k, kind), upper_bound(s, k, kind) - 1)
  IN  [i \in 1..Len(r) |-> r[i][2]]

----------------------------------------------------------------------------
(* contest_tags_index: ordered_non_unique on composite_key<key, value>;     *)
(* entries are contest_tags_index_record values.                            *)

\* composite_key order: lexicographic on (key, value)
TagLess(k1, v1, k2, v2) == StrLess(k1, k2) \/ (k1 = k2 /\ StrLess(v1, v2))

\* lower_bound(make_tuple(key)): first entry whose key is not less than key
tags_lower_bound_key(s, key) ==
  IF \E i \in 1..Len(s) : ~StrLess(s[i].key, key)
  THEN CHOOSE i \in 1..Len(s) :
         /\ ~StrLess(s[i].key, key)
         /\ \A j \in 1..(i - 1) : StrLess(s[j].key, key)
  ELSE Len(s) + 1

\* upper_bound(make_tuple(key)): first entry whose key is greater than key
tags_upper_bound_key(s, key) ==
  IF \E i \in 1..Len(s) : StrLess(key, s[i].key)
  THEN CHOOSE i \in 1..Len(s) :
         /\ StrLess(key, s[i].key)
         /\ \A j \in 1..(i - 1) : ~StrLess(key, s[j].key)
  ELSE Len(s) + 1

\* lower_bound(make_tuple(key, value))
tags_lower_bound(s, key, value) ==
  IF \E i \in 1..Len(s) : ~TagLess(s[i].key, s[i].value, key, value)
  THEN CHOOSE i \in 1..Len(s) :
         /\ ~TagLess(s[i].key, s[i].value, key, value)
         /\ \A j \in 1..(i - 1) : TagLess(s[j].key, s[j].value, key, value)
  ELSE Len(s) + 1

\* upper_bound(make_tuple(key, value))
tags_upper_bound(s, key, value) ==
  IF \E i \in 1..Len(s) : TagLess(key, value, s[i].key, s[i].value)
  THEN CHOOSE i \in 1..Len(s) :
         /\ TagLess(key, value, s[i].key, s[i].value)
         /\ \A j \in 1..(i - 1) : ~TagLess(key, value, s[j].key, s[j].value)
  ELSE Len(s) + 1

\* contest_tags_index.insert({key, value, id})
tags_insert(s, key, value, id) ==
  LET p == tags_upper_bound(s, key, value)
  IN  SubSeq(s, 1, p - 1)
        \o << [key |-> key, value |-> value, contest_id |-> id] >>
        \o SubSeq(s, p, Len(s))

----------------------------------------------------------------------------
(* ballot_box_impl::update_index, one overload per record kind               *)

\* decision_storage_record(const signed_voter_decision&): the argument is
\* not used; the base is default-constructed and voter_key is read from it
decision_storage_record(d) ==
  [signer         |-> DefaultDecision.signer,
   contest_id     |-> DefaultDecision.contest_id,
   ballot_id      |-> DefaultDecision.ballot_id,
   write_in_names |-> DefaultDecision.write_in_names,
   voter_key      |-> voter_public_key(DefaultDecision)]

\* the signed_voter_decision slice that level_map<digest, signed_voter_decision> keeps
decision_slice(rec) ==
  [signer |-> rec.signer, contest_id |-> rec.contest_id,
   ballot_id |-> rec.ballot_id, write_in_names |-> rec.write_in_names]

\* decision_index_record(id, s)
decision_index_record(id, s) ==
  [id |-> id, voter |-> address(s.voter_key), contest_id |-> s.contest_id,
   write_in_names |-> s.write_in_names, ballot_id |-> s.ballot_id]

\* decision_index.insert: the hashed_unique by_id view rejects a second
\* record with the same id
decision_index_insert(idx, r) ==
  IF \E i \in DOMAIN idx : idx[i].id = r.id THEN idx ELSE Append(idx, r)

RECURSIVE write_ins_insert(_, _, _)
write_ins_insert(s, names, id) ==
  IF names = <<>> THEN s
  ELSE write_ins_insert(multimap_insert(s, names[1], id, "string"), Tail(names), id)

RECURSIVE ballot_contests_insert(_, _, _)
ballot_contests_insert(s, contests, id) ==
  IF contests = <<>> THEN s
  ELSE ballot_contests_insert(multimap_insert(s, contests[1], id, "digest"),
                              Tail(contests), id)

RECURSIVE contestants_insert(_, _, _)
contestants_insert(s, names, id) ==
  IF names = <<>> THEN s
  ELSE contestants_insert(multimap_insert(s, names[1], id, "string"), Tail(names), id)

RECURSIVE contest_tags_insert(_, _, _)
contest_tags_insert(s, tags, id) ==
  IF tags = <<>> THEN s
  ELSE contest_tags_insert(tags_insert(s, tags[1][1], tags[1][2], id), Tail(tags), id)

\* the index state as one record, so that the overloads compose
IndexState ==
  [decision_index |-> decision_index,
   write_in_index |-> write_in_index,
   ballot_by_contest_index |-> ballot_by_contest_index,
   contest_by_contestant_index |-> contest_by_contestant_index,
   contest_tags_index |-> contest_tags_index]

EmptyIndex ==
  [decision_index |-> <<>>,
   write_in_index |-> <<>>,
   ballot_by_contest_index |-> <<>>,
   contest_by_contestant_index |-> <<>>,
   contest_tags_index |-> <<>>]

update_index_decision(ix, id, rec) ==
  [ix EXCEPT
     !.decision_index = decision_index_insert(@, decision_index_record(id, rec)),
     !.write_in_index = write_ins_insert(@, rec.write_in_names, id)]

\* variant: only the first contest of the ballot is indexed
update_index_ballot_first_contest(ix, id, b) ==
  [ix EXCEPT
     !.ballot_by_contest_index =
        ballot_contests_insert(@, SubSeq(b.contests, 1, 1), id)]

update_index_ballot(ix, id, b) ==
  [ix EXCEPT
     !.ballot_by_contest_index = ballot_contests_insert(@, b.contests, id)]

update_index_contest(ix, id, c) ==
  [ix EXCEPT
     !.contest_by_contestant_index = contestants_insert(@, c.contestants, id),
     !.contest_tags_index = contest_tags_insert(@, c.tags, id)]

----------------------------------------------------------------------------
(* Rebuild loops of ballot_box_impl::open                                    *)

RECURSIVE replay_decisions(_, _, _)
replay_decisions(ix, keys, data) ==
  IF keys = <<>> THEN ix
  ELSE replay_decisions(
         update_index_decision(ix, keys[1], decision_storage_record(data[keys[1]])),
         Tail(keys), data)

RECURSIVE replay_ballots(_, _, _)
replay_ballots(ix, keys, data) ==
  IF keys = <<>> THEN ix
  ELSE replay_ballots(update_index_ballot(ix, keys[1], data[keys[1]]),
                      Tail(keys), data)

RECURSIVE replay_contests(_, _, _)
replay_contests(ix, keys, data) ==
  IF keys = <<>> THEN ix
  ELSE replay_contests(update_index_contest(ix, keys[1], data[keys[1]]),
                       Tail(keys), data)

\* bound on the model: no multimap index grows beyond MaxEntries
WithinBounds(ix) ==
  /\ Len(ix.write_in_index) <= MaxEntries
  /\ Len(ix.ballot_by_contest_index) <= MaxEntries
  /\ Len(ix.contest_by_contestant_index) <= MaxEntries
  /\ Len(ix.contest_tags_index) <= MaxEntries

\* the whole engine state as one record: what a call leaves behind
EngineState ==
  [databases_open |-> databases_open,
   decision_db |-> decision_db, ballot_db |-> ballot_db, contest_db |-> contest_db,
   ix |-> IndexState]

\* assignment of an engine state and of the call history
Becomes(st, op, ok, arg) ==
  /\ databases_open' = st.databases_open
  /\ decision_db' = st.decision_db
  /\ ballot_db' = st.ballot_db
  /\ contest_db' = st.contest_db
  /\ decision_index' = st.ix.decision_index
  /\ write_in_index' = st.ix.write_in_index
  /\ ballot_by_contest_index' = st.ix.ballot_by_contest_index
  /\ contest_by_contestant_index' = st.ix.contest_by_contestant_index
  /\ contest_tags_index' = st.ix.contest_tags_index
  /\ last' = [op |-> op, ok |-> ok, arg |-> arg]
  /\ prev' = last

----------------------------------------------------------------------------
(* ballot_box_impl: store_record, open, clear, close.  Each operator gives   *)
(* the outcome of the call on engine state st: whether it returned normally  *)
(* and the state it leaves (an exception keeps what was done before it).     *)

Outcome(ok, st) == [ok |-> ok, st |-> st]

\* store_record with the outcome of the durable write as an input:
\* write_ok = FALSE is level_map::store throwing
store_record_decision_io(st, d, write_ok) ==
  LET id     == digest(d)
      record == decision_storage_record(d)
  IN  IF ~st.decision_db.is_open \/ ~write_ok THEN Outcome(FALSE, st)
      ELSE Outcome(TRUE,
             [st EXCEPT !.decision_db = db_store(@, id, decision_slice(record)),
                        !.ix = update_index_decision(@, id, record)])

\* variant: the index is updated before the durable write
store_record_ballot_index_first(st, b, write_ok) ==
  LET id == ballot_id(b)
      s1 == [st EXCEPT !.ix = update_index_ballot(@, id, b)]
  IN  IF ~st.ballot_db.is_open \/ ~write_ok THEN Outcome(FALSE, s1)
      ELSE Outcome(TRUE, [s1 EXCEPT !.ballot_db = db_store(@, id, b)])

store_record_ballot_io(st, b, write_ok) ==
  LET id == ballot_id(b)
  IN  IF ~st.ballot_db.is_open \/ ~write_ok THEN Outcome(FALSE, st)
      ELSE Outcome(TRUE,
             [st EXCEPT !.ballot_db = db_store(@, id, b),
                        !.ix = update_index_ballot(@, id, b)])

store_record_contest_io(st, c, write_ok) ==
  LET id == contest_id(c)
  IN  IF ~st.contest_db.is_open \/ ~write_ok THEN Outcome(FALSE, st)
      ELSE Outcome(TRUE,
             [st EXCEPT !.contest_db = db_store(@, id, c),
                        !.ix = update_index_contest(@, id, c)])

\* store_record when the durable write does not fail
store_record_decision(st, d) == store_record_decision_io(st, d, TRUE)

store_record_ballot(st, b) == store_record_ballot_io(st, b, TRUE)

store_record_contest(st, c) == store_record_contest_io(st, c, TRUE)

\* where ballot_box_impl::open throws: the level_map::open of a store, or the
\* iteration over a store that was opened (begin, valid, key, value, ++)
OpenFailures == {"none", "decision_db", "ballot_db", "contest_db",
                 "iter_decision", "iter_ballot", "iter_contest"}

\* the first n entries of s, all of s when it has fewer
Prefix(s, n) == SubSeq(s, 1, IF n < Len(s) THEN n ELSE Len(s))

\* how many records the loop may have passed to update_index when the
\* iteration throws: any number from none to all the records of the store
ReplayCounts(st, fail_at) ==
  IF fail_at = "iter_decision" THEN 0 .. Len(db_keys(st.decision_db))
  ELSE IF fail_at = "iter_ballot" THEN 0 .. Len(db_keys(st.ballot_db))
  ELSE IF fail_at = "iter_contest" THEN 0 .. Len(db_keys(st.contest_db))
  ELSE {0}

\* variant: open on an already open ballot box is not refused
impl_open_unguarded(st, fail_at, replayed) ==
  LET s1 == [st EXCEPT !.decision_db.is_open = TRUE,
                       !.ix = replay_decisions(@, db_keys(st.decision_db),
                                               st.decision_db.data)]
      s2 == [s1 EXCEPT !.ballot_db.is_open = TRUE,
                       !.ix = replay_ballots(@, db_keys(s1.ballot_db),
                                             s1.ballot_db.data)]
      s3 == [s2 EXCEPT !.contest_db.is_open = TRUE,
                       !.ix = replay_contests(@, db_keys(s2.contest_db),
                                              s2.contest_db.data)]
  IN  Outcome(TRUE, [s3 EXCEPT !.databases_open = TRUE])

\* ballot_box_impl::open with the point where it throws as an input: a store
\* is opened, then its records are replayed into the indices, then the next
\* store is opened; a throw leaves what was done before it
impl_open_io(st, fail_at, replayed) ==
  IF st.databases_open THEN Outcome(FALSE, st)
  ELSE IF st.decision_db.is_open \/ fail_at = "decision_db" THEN Outcome(FALSE, st)
  ELSE IF fail_at = "iter_decision"
  THEN Outcome(FALSE,
         [st EXCEPT !.decision_db.is_open = TRUE,
                    !.ix = replay_decisions(@, Prefix(db_keys(st.decision_db), replayed),
                                            st.decision_db.data)])
  ELSE
    LET s1 == [st EXCEPT !.decision_db.is_open = TRUE,
                         !.ix = replay_decisions(@, db_keys(st.decision_db),
                                                 st.decision_db.data)]
    IN  IF s1.ballot_db.is_open \/ fail_at = "ballot_db" THEN Outcome(FALSE, s1)
        ELSE IF fail_at = "iter_ballot"
        THEN Outcome(FALSE,
               [s1 EXCEPT !.ballot_db.is_open = TRUE,
                          !.ix = replay_ballots(@, Prefix(db_keys(s1.ballot_db), replayed),
                                                s1.ballot_db.data)])
        ELSE
          LET s2 == [s1 EXCEPT !.ballot_db.is_open = TRUE,
                               !.ix = replay_ballots(@, db_keys(s1.ballot_db),
                                                     s1.ballot_db.data)]
          IN  IF s2.contest_db.is_open \/ fail_at = "contest_db"
              THEN Outcome(FALSE, s2)
              ELSE IF fail_at = "iter_contest"
              THEN Outcome(FALSE,
                     [s2 EXCEPT !.contest_db.is_open = TRUE,
                                !.ix = replay_contests(@, Prefix(db_keys(s2.contest_db),
                                                                 replayed),
                                                       s2.contest_db.data)])
              ELSE
                LET s3 == [s2 EXCEPT !.contest_db.is_open = TRUE,
                                     !.ix = replay_contests(@, db_keys(s2.contest_db),
                                                            s2.contest_db.data)]
                IN  Outcome(TRUE, [s3 EXCEPT !.databases_open = TRUE])

\* ballot_box_impl::open when nothing throws
impl_open(st) == impl_open_io(st, "none", 0)

\* the store whose removal loop throws during ballot_box_impl::clear: a
\* level_map::remove or a step of the iteration (begin, valid, key, ++)
ClearFailures == {"none", "decision_db", "ballot_db", "contest_db"}

\* how many keys the loop may have removed when it throws: any number from
\* none to all the keys of the store
RemoveCounts(st, fail_at) ==
  IF fail_at = "none" THEN {0} ELSE 0 .. Len(db_keys(st[fail_at]))

\* ballot_box_impl::clear with the point where it throws as an input: the
\* stores are wiped one after the other, then the five indices are cleared; a
\* throw leaves what was removed before it and the indices as they were
impl_clear_io(st, fail_at, removed) ==
  IF st.databases_open
  THEN IF ~st.decision_db.is_open THEN Outcome(FALSE, st)
       ELSE IF fail_at = "decision_db"
       THEN Outcome(FALSE, [st EXCEPT !.decision_db = db_remove_first(@, removed)])
       ELSE
         LET s1 == [st EXCEPT !.decision_db = db_wipe(@)]
         IN  IF ~s1.ballot_db.is_open THEN Outcome(FALSE, s1)
             ELSE IF fail_at = "ballot_db"
             THEN Outcome(FALSE,
                    [s1 EXCEPT !.ballot_db = db_remove_first(@, removed)])
             ELSE
               LET s2 == [s1 EXCEPT !.ballot_db = db_wipe(@)]
               IN  IF ~s2.contest_db.is_open THEN Outcome(FALSE, s2)
                   ELSE IF fail_at = "contest_db"
                   THEN Outcome(FALSE,
                          [s2 EXCEPT !.contest_db = db_remove_first(@, removed)])
                   ELSE Outcome(TRUE, [s2 EXCEPT !.contest_db = db_wipe(@),
                                                 !.ix = EmptyIndex])
  ELSE Outcome(TRUE, [st EXCEPT !.ix = EmptyIndex])

\* variant: ballot_db is not wiped
impl_clear_keeping_ballots(st) ==
  IF st.databases_open
  THEN IF ~st.decision_db.is_open THEN Outcome(FALSE, st)
       ELSE
         LET s1 == [st EXCEPT !.decision_db = db_wipe(@)]
         IN  IF ~s1.contest_db.is_open THEN Outcome(FALSE, s1)
             ELSE Outcome(TRUE, [s1 EXCEPT !.contest_db = db_wipe(@),
                                           !.ix = EmptyIndex])
  ELSE Outcome(TRUE, [st EXCEPT !.ix = EmptyIndex])

\* ballot_box_impl::clear when nothing throws
impl_clear(st) == impl_clear_io(st, "none", 0)

\* level_map::close
db_close(st, which) ==
  IF ~st[which].is_open THEN Outcome(FALSE, st)
  ELSE Outcome(TRUE, [st EXCEPT ![which].is_open = FALSE])

impl_close(st) ==
  IF ~st.databases_open THEN Outcome(FALSE, st)
  ELSE
    LET s0 == [st EXCEPT !.databases_open = FALSE]
        r1 == db_close(s0, "decision_db")
    IN  IF ~r1.ok THEN r1
        ELSE LET r2 == db_close(r1.st, "ballot_db")
             IN  IF ~r2.ok THEN r2
                 ELSE LET r3 == db_close(r2.st, "contest_db")
                      IN  IF ~r3.ok THEN r3 ELSE impl_clear(r3.st)

----------------------------------------------------------------------------
(* Query operations of ballot_box_impl                                       *)

\* the walk over equal_range of a hashed_non_unique view: the entries with
\* an equal key are met from the one inserted last to the one inserted first
RECURSIVE equal_range_ids(_, _, _)
equal_range_ids(idx, field, key) ==
  IF idx = <<>> THEN <<>>
  ELSE LET rest == equal_range_ids(Tail(idx), field, key)
       IN  IF Head(idx)[field] = key THEN rest \o <<Head(idx).id>> ELSE rest

\* equal_range on a hashed_non_unique view of decision_index, push_back of
\* every rec.id in the range
get_decisions_by_key(field, key) == equal_range_ids(decision_index, field, key)

get_decisions_by_voter(voter) == get_decisions_by_key("voter", voter)

get_decisions_by_contest(cid) == get_decisions_by_key("contest_id", cid)

get_decisions_by_ballot(bid) == get_decisions_by_key("ballot_id", bid)

RECURSIVE all_write_ins_from(_, _)
all_write_ins_from(s, itr) ==
  IF itr = Len(s) + 1 THEN <<>>
  ELSE <<s[itr][1]>> \o all_write_ins_from(s, upper_bound(s, s[itr][1], "string"))

\* variant: the iterator is advanced by one entry instead of to upper_bound
get_all_write_ins_every_entry ==
  [i \in 1..Len(write_in_index) |-> write_in_index[i][1]]

get_all_write_ins == all_write_ins_from(write_in_index, 1)

get_decisions_with_write_in(name) ==
  equal_range_values(write_in_index, name, "string")

get_ballots_by_contest(cid) ==
  equal_range_values(ballot_by_contest_index, cid, "digest")

RECURSIVE values_by_tag_from(_, _, _)
values_by_tag_from(s, key, itr) ==
  IF itr = tags_upper_bound_key(s, key) THEN <<>>
  ELSE <<s[itr].value>>
         \o values_by_tag_from(s, key, tags_upper_bound(s, s[itr].key, s[itr].value))

\* variant: the iterator is advanced by one entry instead of to upper_bound
get_values_by_tag_every_entry(key) ==
  LET s == contest_tags_index
      r == SubSeq(s, tags_lower_bound_key(s, key), tags_upper_bound_key(s, key) - 1)
  IN  [i \in 1..Len(r) |-> r[i].value]

get_values_by_tag(key) ==
  values_by_tag_from(contest_tags_index, key,
                     tags_lower_bound_key(contest_tags_index, key))

\* variant: no wildcard, an empty value is looked up like any other
get_contests_by_tags_exact_only(key, value) ==
  LET s == contest_tags_index
      r == SubSeq(s, tags_lower_bound(s, key, value),
                  tags_upper_bound(s, key, value) - 1)
  IN  [i \in 1..Len(r) |-> r[i].contest_id]

get_contests_by_tags(key, value) ==
  LET s     == contest_tags_index
      first == IF value = EmptyStr THEN tags_lower_bound_key(s, key)
               ELSE tags_lower_bound(s, key, value)
      end   == IF value = EmptyStr THEN tags_upper_bound_key(s, key)
               ELSE tags_upper_bound(s, key, value)
      r     == SubSeq(s, first, end - 1)
  IN  [i \in 1..Len(r) |-> r[i].contest_id]

get_contests_by_contestant(name) ==
  equal_range_values(contest_by_contestant_index, name, "string")

\* the result set of every query for every argument
QueryResults ==
  [by_voter      |-> [a \in Voters |-> Range(get_decisions_by_voter(a))],
   by_contest    |-> [c \in DigestArgs |-> Range(get_decisions_by_contest(c))],
   by_ballot     |-> [b \in DigestArgs |-> Range(get_decisions_by_ballot(b))],
   write_ins     |-> Range(get_all_write_ins),
   with_write_in |-> [n \in Names |-> Range(get_decisions_with_write_in(n))],
   ballots       |-> [c \in DigestArgs |-> Range(get_ballots_by_contest(c))],
   tag_values    |-> [k \in TagKeys |-> Range(get_values_by_tag(k))],
   by_tags       |-> [kv \in TagKeys \X TagValues |->
                         Range(get_contests_by_tags(kv[1], kv[2]))],
   by_contestant |-> [n \in Names |-> Range(get_contests_by_contestant(n))]]

----------------------------------------------------------------------------
(* The public facade: class ballot_box                                       *)

NoCall == [op |-> "none", ok |-> TRUE, arg |-> <<>>]

Init ==
  /\ databases_open = FALSE
  /\ decision_db = ClosedStore(<< >>)
  /\ ballot_db = ClosedStore(<< >>)
  /\ contest_db = ClosedStore(<< >>)
  /\ decision_index = <<>>
  /\ write_in_index = <<>>
  /\ ballot_by_contest_index = <<>>
  /\ contest_by_contestant_index = <<>>
  /\ contest_tags_index = <<>>
  /\ last = NoCall
  /\ prev = NoCall

\* ballot_box::ballot_box(): a new engine over the directory the previous
\* one used; the durable records stay, the handles and the indices are new
ballot_box_new ==
  \E st \in { [databases_open |-> FALSE,
                decision_db |-> ClosedStore(decision_db.data),
                ballot_db |-> ClosedStore(ballot_db.data),
                contest_db |-> ClosedStore(contest_db.data),
                ix |-> EmptyIndex] } :
    Becomes(st, "ballot_box", TRUE, <<>>)

open ==
  \E r \in { impl_open(EngineState) } :
    Becomes(r.st, "open", r.ok, <<>>)

is_open == databases_open

clear ==
  \E r \in { impl_clear(EngineState) } :
    Becomes(r.st, "clear", r.ok, <<>>)

close ==
  \E r \in { db_close(EngineState, "decision_db") } :
    Becomes(r.st, "close", r.ok, QueryResults)

store_new_decision ==
  \E d \in Decisions :
    LET r == store_record_decision(EngineState, d)
    IN  /\ WithinBounds(r.st.ix)
        /\ Becomes(r.st, "store_new_decision", r.ok, d)

store_ballot ==
  \E b \in Ballots :
    LET r == store_record_ballot(EngineState, b)
    IN  /\ WithinBounds(r.st.ix)
        /\ Becomes(r.st, "store_ballot", r.ok, b)

store_contest ==
  \E c \in Contests :
    LET r == store_record_contest(EngineState, c)
    IN  /\ WithinBounds(r.st.ix)
        /\ Becomes(r.st, "store_contest", r.ok, c)

Next ==
  \/ ballot_box_new
  \/ open
  \/ clear
  \/ close
  \/ store_new_decision
  \/ store_ballot
  \/ store_contest

Spec == Init /\ [][Next]_vars

----------------------------------------------------------------------------
(* Index contents built entry by entry, for the properties of the queries    *)
(* that are stated over every index content.                                 *)

EntryIds == 1..2

\* write_in_index.insert(std::make_pair(write_in, id))
write_in_index_insert ==
  \E name \in Names, id \in EntryIds :
    /\ Len(write_in_index) < MaxEntries
    /\ write_in_index' = multimap_insert(write_in_index, name, id, "string")
    /\ UNCHANGED <<databases_open, decision_db, ballot_db, contest_db,
                   decision_index, ballot_by_contest_index,
                   contest_by_contestant_index, contest_tags_index, last, prev>>

\* contest_tags_index.insert({key, value, id})
contest_tags_index_insert ==
  \E key \in TagKeys, value \in TagValues, id \in EntryIds :
    /\ Len(contest_tags_index) < MaxEntries
    /\ contest_tags_index' = tags_insert(contest_tags_index, key, value, id)
    /\ UNCHANGED <<databases_open, decision_db, ballot_db, contest_db,
                   decision_index, write_in_index, ballot_by_contest_index,
                   contest_by_contestant_index, last, prev>>

----------------------------------------------------------------------------
(* The facade when the durable layer may fail: a level_map::store, a         *)
(* level_map::open or an iteration may throw.  The history kept here is the  *)
(* last call only.                                                           *)

BecomesIO(st, op, ok, arg) ==
  /\ databases_open' = st.databases_open
  /\ decision_db' = st.decision_db
  /\ ballot_db' = st.ballot_db
  /\ contest_db' = st.contest_db
  /\ decision_index' = st.ix.decision_index
  /\ write_in_index' = st.ix.write_in_index
  /\ ballot_by_contest_index' = st.ix.ballot_by_contest_index
  /\ contest_by_contestant_index' = st.ix.contest_by_contestant_index
  /\ contest_tags_index' = st.ix.contest_tags_index
  /\ last' = [op |-> op, ok |-> ok, arg |-> arg]
  /\ prev' = prev

ballot_box_new_io ==
  \E st \in { [databases_open |-> FALSE,
                decision_db |-> ClosedStore(decision_db.data),
                ballot_db |-> ClosedStore(ballot_db.data),
                contest_db |-> ClosedStore(contest_db.data),
                ix |-> EmptyIndex] } :
    BecomesIO(st, "ballot_box", TRUE, <<>>)

clear_io ==
  \E fail_at \in ClearFailures :
    \E removed \in RemoveCounts(EngineState, fail_at) :
      \E r \in { impl_clear_io(EngineState, fail_at, removed) } :
        BecomesIO(r.st, "clear", r.ok, <<>>)

close_io ==
  \E r \in { db_close(EngineState, "decision_db") } :
    BecomesIO(r.st, "close", r.ok, QueryResults)

open_io ==
  \E fail_at \in OpenFailures :
    \E replayed \in ReplayCounts(EngineState, fail_at) :
      \E r \in { impl_open_io(EngineState, fail_at, replayed) } :
        BecomesIO(r.st, "open", r.ok, <<>>)

store_new_decision_io ==
  \E d \in Decisions, write_ok \in BOOLEAN :
    LET r == store_record_decision_io(EngineState, d, write_ok)
    IN  /\ WithinBounds(r.st.ix)
        /\ BecomesIO(r.st, "store_new_decision", r.ok, d)

store_ballot_io ==
  \E b \in Ballots, write_ok \in BOOLEAN :
    LET r == store_record_ballot_io(EngineState, b, write_ok)
    IN  /\ WithinBounds(r.st.ix)
        /\ BecomesIO(r.st, "store_ballot", r.ok, b)

store_contest_io ==
  \E c \in Contests, write_ok \in BOOLEAN :
    LET r == store_record_contest_io(EngineState, c, write_ok)
    IN  /\ WithinBounds(r.st.ix)
        /\ BecomesIO(r.st, "store_contest", r.ok, c)

NextIO ==
  \/ ballot_box_new_io
  \/ open_io
  \/ clear_io
  \/ close_io
  \/ store_new_decision_io
  \/ store_ballot_io
  \/ store_contest_io

SpecIO == Init /\ [][NextIO]_vars

SpecWriteIns == Init /\ [][write_in_index_insert]_vars

SpecTags == Init /\ [][contest_tags_index_insert]_vars

----------------------------------------------------------------------------
(* Properties                                                                *)

\* Open in the sense of the lifecycle: the flag is set and the three stores
\* are open
Open ==
  /\ databases_open
  /\ decision_db.is_open /\ ballot_db.is_open /\ contest_db.is_open

StoreOps == {"store_new_decision", "store_ballot", "store_contest"}

\* the submitted decisions whose identifier is present in decision_db
StoredDecisions == { d \in Decisions : digest(d) \in DOMAIN decision_db.data }

\* every index entry derivable from a record in a durable store is present
IndexComplete ==
  /\ \A id \in DOMAIN decision_db.data :
        LET d == decision_db.data[id]
        IN  /\ \E e \in Range(decision_index) :
                  /\ e.id = id
                  /\ e.voter = address(voter_public_key(d))
                  /\ e.contest_id = d.contest_id
                  /\ e.ballot_id = d.ballot_id
            /\ \A n \in Range(d.write_in_names) :
                  <<n, id>> \in Range(write_in_index)
  /\ \A id \in DOMAIN ballot_db.data :
        \A c \in Range(ballot_db.data[id].contests) :
          <<c, id>> \in Range(ballot_by_contest_index)
  /\ \A id \in DOMAIN contest_db.data :
        LET c == contest_db.data[id]
        IN  /\ \A n \in Range(c.contestants) :
                  <<n, id>> \in Range(contest_by_contestant_index)
            /\ \A t \in Range(c.tags) :
                  [key |-> t[1], value |-> t[2], contest_id |-> id]
                     \in Range(contest_tags_index)

\* no index entry names a record that its durable store does not hold
NoDanglingEntry ==
  /\ \A e \in Range(decision_index) : e.id \in DOMAIN decision_db.data
  /\ \A e \in Range(write_in_index) : e[2] \in DOMAIN decision_db.data
  /\ \A e \in Range(ballot_by_contest_index) : e[2] \in DOMAIN ballot_db.data
  /\ \A e \in Range(contest_by_contestant_index) : e[2] \in DOMAIN contest_db.data
  /\ \A e \in Range(contest_tags_index) : e.contest_id \in DOMAIN contest_db.data

\* C1: whenever the ballot box reports itself open, every index entry
\* derivable from a durably stored record is in the indices and no index
\* entry names a record missing from its store (invariant I1).
C1_IndexMatchesStores == is_open => (IndexComplete /\ NoDanglingEntry)

\* C2: a close followed by an open on the same directory succeeds and every
\* query returns the result set it returned just before the close.
C2_RebuildEquivalence ==
  (last.op = "open" /\ prev.op = "close" /\ prev.ok)
     => (last.ok /\ QueryResults = prev.arg)

\* C3: after a store_new_decision, the by-voter, by-contest and by-ballot
\* queries return exactly the stored decisions that carry the key.
C3_DecisionIndexCompleteness ==
  (last.op = "store_new_decision" /\ last.ok) =>
     /\ \A a \in Voters :
           Range(get_decisions_by_voter(a)) =
             { digest(d) : d \in { x \in StoredDecisions :
                                     address(voter_public_key(x)) = a } }
     /\ \A c \in DigestArgs :
           Range(get_decisions_by_contest(c)) =
             { digest(d) : d \in { x \in StoredDecisions : x.contest_id = c } }
     /\ \A b \in DigestArgs :
           Range(get_decisions_by_ballot(b)) =
             { digest(d) : d \in { x \in StoredDecisions : x.ballot_id = b } }

\* C4: the record fetched under an identifier is the record that was stored:
\* right after a successful store the argument is fetched back, and every
\* record held by a store hashes to the identifier it is filed under.
C4_StoreFetchRoundTrip ==
  /\ (last.op = "store_new_decision" /\ last.ok) =>
        /\ db_has(decision_db, digest(last.arg))
        /\ decision_db.data[digest(last.arg)] = last.arg
  /\ (last.op = "store_ballot" /\ last.ok) =>
        /\ db_has(ballot_db, ballot_id(last.arg))
        /\ ballot_db.data[ballot_id(last.arg)] = last.arg
  /\ (last.op = "store_contest" /\ last.ok) =>
        /\ db_has(contest_db, contest_id(last.arg))
        /\ contest_db.data[contest_id(last.arg)] = last.arg
  /\ \A id \in DOMAIN decision_db.data : digest(decision_db.data[id]) = id
  /\ \A id \in DOMAIN ballot_db.data : ballot_id(ballot_db.data[id]) = id
  /\ \A id \in DOMAIN contest_db.data : contest_id(contest_db.data[id]) = id

\* C5: open and close alternate successfully; open on an open box and close
\* on a closed box are refused.
C5_OpenCloseCycling ==
  /\ (last.op = "open" /\ prev.op \in {"none", "ballot_box"}) => last.ok
  /\ (last.op = "close" /\ prev.op \in {"none", "ballot_box"}) => ~last.ok
  /\ (last.op = "close" /\ prev.op = "open" /\ prev.ok) => last.ok
  /\ (last.op = "open" /\ prev.op = "close" /\ prev.ok) => last.ok
  /\ (last.op = "open" /\ prev.op = "open" /\ prev.ok) => ~last.ok
  /\ (last.op = "close" /\ prev.op = "close" /\ prev.ok) => ~last.ok

\* every query returns an empty result for every argument
AllQueriesEmpty ==
  /\ \A a \in Voters : get_decisions_by_voter(a) = <<>>
  /\ \A c \in DigestArgs : get_decisions_by_contest(c) = <<>>
  /\ \A b \in DigestArgs : get_decisions_by_ballot(b) = <<>>
  /\ get_all_write_ins = <<>>
  /\ \A n \in Names : get_decisions_with_write_in(n) = <<>>
  /\ \A c \in DigestArgs : get_ballots_by_contest(c) = <<>>
  /\ \A k \in TagKeys : get_values_by_tag(k) = <<>>
  /\ \A k \in TagKeys, v \in TagValues : get_contests_by_tags(k, v) = <<>>
  /\ \A n \in Names : get_contests_by_contestant(n) = <<>>

\* C6: after clear on an open ballot box every query is empty for every
\* argument and no identifier can be fetched from any of the three stores.
C6_ClearWipesEverything ==
  (last.op = "clear" /\ Open) =>
     /\ last.ok
     /\ AllQueriesEmpty
     /\ \A d \in Decisions : ~db_has(decision_db, digest(d))
     /\ \A b \in Ballots : ~db_has(ballot_db, ballot_id(b))
     /\ \A c \in Contests : ~db_has(contest_db, contest_id(c))

C6_Witness ==
  /\ last.op = "clear" /\ Open
  /\ prev.op \in StoreOps /\ prev.ok

\* C7: after a store_new_decision, get_decisions_with_write_in(name) returns
\* exactly the stored decisions whose write_in_names contain that name.
C7_WriteInLookup ==
  (last.op = "store_new_decision" /\ last.ok) =>
     \A n \in Names :
        Range(get_decisions_with_write_in(n)) =
          { digest(d) : d \in { x \in StoredDecisions :
                                  n \in Range(x.write_in_names) } }

\* a sequence of strings in strictly ascending lexicographic order
StrictlyAscending(r) == \A i \in 1..(Len(r) - 1) : StrLess(r[i], r[i + 1])

\* C8: get_all_write_ins returns each name that has an entry in the write-in
\* index exactly once, nothing else, in ascending lexicographic order.
C8_AllWriteInsDistinctSorted ==
  LET r == get_all_write_ins
  IN  /\ Range(r) = { e[1] : e \in Range(write_in_index) }
      /\ Len(r) = Cardinality(Range(r))
      /\ StrictlyAscending(r)

C8_Witness ==
  /\ Len(write_in_index) = 4
  /\ Len(get_all_write_ins) = 2
  /\ \E i \in 1..3 : /\ write_in_index[i][1] = write_in_index[i + 1][1]
                      /\ write_in_index[i][2] = write_in_index[i + 1][2]

\* the contest ids of the tag entries satisfying a test, in index order
RECURSIVE ContestIdsWhere(_, _, _, _)
ContestIdsWhere(s, key, value, any) ==
  IF s = <<>> THEN <<>>
  ELSE (IF s[1].key = key /\ (any \/ s[1].value = value)
        THEN <<s[1].contest_id>> ELSE <<>>)
         \o ContestIdsWhere(Tail(s), key, value, any)

\* C9: get_contests_by_tags(key, value) returns one contest id per tag entry
\* equal to (key, value) when value is not empty, and one contest id per tag
\* entry with that key under any value when value is empty.
C9_ContestsByTags ==
  \A k \in TagKeys, v \in TagValues :
     get_contests_by_tags(k, v) =
        ContestIdsWhere(contest_tags_index, k, v, v = EmptyStr)

C9_Witness ==
  /\ last.op = "store_contest" /\ last.ok
  /\ \E i, j \in 1..Len(get_contests_by_tags(region, EmptyStr)) :
        /\ i # j
        /\ get_contests_by_tags(region, EmptyStr)[i]
             = get_contests_by_tags(region, EmptyStr)[j]
  /\ Len(get_contests_by_tags(region, north)) = 2
  /\ Len(get_contests_by_tags(region, EmptyStr)) = 3

\* C10: get_values_by_tag(key) returns each value carried by an entry with
\* that key exactly once, no value of another key, in ascending order (and
\* so nothing when no entry has the key).
C10_ValuesByTagDistinctSorted ==
  \A k \in TagKeys :
     LET r == get_values_by_tag(k)
     IN  /\ Range(r) = { e.value : e \in { x \in Range(contest_tags_index) :
                                              x.key = k } }
         /\ Len(r) = Cardinality(Range(r))
         /\ StrictlyAscending(r)

C10_Witness ==
  /\ Len(contest_tags_index) = 4
  /\ get_values_by_tag(region) = <<EmptyStr, south>>
  /\ get_values_by_tag(type) = <<south>>
  /\ \E i \in 1..3 : contest_tags_index[i] = contest_tags_index[i + 1]

\* the submitted ballots and contests whose identifier is present in a store
StoredBallots == { b \in Ballots : ballot_id(b) \in DOMAIN ballot_db.data }

StoredContests == { c \in Contests : contest_id(c) \in DOMAIN contest_db.data }

\* C11: on an open ballot box get_ballots_by_contest(c) returns exactly the
\* stored ballots that list c and get_contests_by_contestant(n) exactly the
\* stored contests with a contestant named n; an empty list when none does.
C11_BallotAndContestantLookup ==
  is_open =>
     /\ \A c \in DigestArgs :
           Range(get_ballots_by_contest(c)) =
             { ballot_id(b) : b \in { x \in StoredBallots :
                                        c \in Range(x.contests) } }
     /\ \A n \in Names :
           Range(get_contests_by_contestant(n)) =
             { contest_id(c) : c \in { x \in StoredContests :
                                         n \in Range(x.contestants) } }

C11_Witness ==
  /\ is_open
  /\ last.op \in {"store_ballot", "store_contest"} /\ last.ok
  /\ Cardinality(Range(get_ballots_by_contest(1))) = 2
  /\ Cardinality(Range(get_ballots_by_contest(2))) = 1
  /\ get_ballots_by_contest(0) = <<>>
  /\ Cardinality(Range(get_contests_by_contestant(Bob))) = 2
  /\ Cardinality(Range(get_contests_by_contestant(Carol))) = 1
  /\ get_contests_by_contestant(Alice) = <<>>

\* C12: a store call that fails leaves the five indices (and the stores)
\* exactly as they were: the durable write precedes every index insertion.
C12_FailedStoreLeavesIndices ==
  [][ (last'.op \in StoreOps /\ ~last'.ok) =>
        UNCHANGED <<decision_index, write_in_index, ballot_by_contest_index,
                    contest_by_contestant_index, contest_tags_index,
                    decision_db, ballot_db, contest_db, databases_open>> ]_vars

C12_Witness ==
  /\ Open
  /\ last.op = "store_ballot" /\ ~last.ok
  /\ ballot_id(last.arg) \notin DOMAIN ballot_db.data
  /\ ballot_by_contest_index # <<>>
  /\ contest_tags_index # <<>>

\* the indices a rebuild from the three stores produces, starting empty
CleanRebuild ==
  replay_contests(
    replay_ballots(
      replay_decisions(EmptyIndex, db_keys(decision_db), decision_db.data),
      db_keys(ballot_db), ballot_db.data),
    db_keys(contest_db), contest_db.data)

\* C13: an open that fails part-way leaves the indices empty and no store
\* open, or else the next open succeeds and yields the clean rebuild.
C13_FailedOpenLeavesCleanState ==
  (last.op = "open" /\ ~last.ok /\ ~databases_open) =>
     \/ /\ IndexState = EmptyIndex
        /\ ~decision_db.is_open /\ ~ballot_db.is_open /\ ~contest_db.is_open
     \/ /\ impl_open(EngineState).ok
        /\ impl_open(EngineState).st.ix = CleanRebuild

\* C14: after a close that returned normally the three stores are closed,
\* every query is empty and is_open() is false.
C14_CloseClosesEverything ==
  (last.op = "close" /\ last.ok) =>
     /\ ~decision_db.is_open /\ ~ballot_db.is_open /\ ~contest_db.is_open
     /\ AllQueriesEmpty
     /\ ~is_open

\* C15: open on an open ballot box, and close on a closed one, fail and
\* leave the flag, the stores and the indices as they were.
C15_RejectedCallChangesNothing ==
  [][ /\ (last'.op = "open" /\ databases_open) =>
           (~last'.ok /\ EngineState' = EngineState)
      /\ (last'.op = "close" /\ ~databases_open) =>
           (~last'.ok /\ EngineState' = EngineState)
      /\ ~databases_open => impl_close(EngineState) = Outcome(FALSE, EngineState)
    ]_vars

C15_Witness ==
  /\ last.op = "open" /\ ~last.ok
  /\ prev.op \in StoreOps /\ prev.ok
  /\ Open
  /\ ballot_by_contest_index # <<>>
  /\ contest_tags_index # <<>>
  /\ decision_index # <<>>

\* C16: clear leaves the five indices empty and the open flag as it was, and
\* on a closed ballot box it leaves the durable records in place.
C16_ClearEmptiesIndices ==
  [][ last'.op = "clear" =>
        /\ IndexState' = EmptyIndex
        /\ databases_open' = databases_open
        /\ ~databases_open => UNCHANGED <<decision_db, ballot_db, contest_db>>
    ]_vars

\* C17: store calls fail on a ballot box that was never opened and on one
\* that was closed after being open.
C17_StoreOnClosedFails ==
  /\ (last.op \in StoreOps /\ ~databases_open) => ~last.ok
  /\ (last.op \in StoreOps /\ prev.op = "close" /\ prev.ok) => ~last.ok

\* number of positions of a sequence holding x
Occ(s, x) == Cardinality({ i \in 1..Len(s) : s[i] = x })

\* number of tag pairs of a contest with the key (and the value, unless any)
TagOcc(tags, k, v, any) ==
  Cardinality({ i \in 1..Len(tags) :
                  tags[i][1] = k /\ (any \/ tags[i][2] = v) })

\* storing a ballot whose id the store holds: the store is unchanged and
\* each listed contest returns the id once more
BallotRestored ==
  (/\ last'.op = "store_ballot" /\ last'.ok
   /\ ballot_id(last'.arg) \in DOMAIN ballot_db.data) =>
     /\ ballot_db' = ballot_db
     /\ \A c \in DigestArgs :
          Occ(get_ballots_by_contest(c)', ballot_id(last'.arg)) =
            Occ(get_ballots_by_contest(c), ballot_id(last'.arg))
              + Occ(last'.arg.contests, c)

\* storing a contest whose id the store holds: the store is unchanged and
\* each contestant and each tag returns the id once more
ContestRestored ==
  (/\ last'.op = "store_contest" /\ last'.ok
   /\ contest_id(last'.arg) \in DOMAIN contest_db.data) =>
     /\ contest_db' = contest_db
     /\ \A n \in Names :
          Occ(get_contests_by_contestant(n)', contest_id(last'.arg)) =
            Occ(get_contests_by_contestant(n), contest_id(last'.arg))
              + Occ(last'.arg.contestants, n)
     /\ \A k \in TagKeys, v \in TagValues :
          Occ(get_contests_by_tags(k, v)', contest_id(last'.arg)) =
            Occ(get_contests_by_tags(k, v), contest_id(last'.arg))
              + TagOcc(last'.arg.tags, k, v, v = EmptyStr)

\* C18 as stated: storing a record whose id the store holds keeps a single
\* record and makes every query that matches the record, of every record
\* kind, return its id once more.
C18_RestoreDuplicatesEveryIndex ==
  [][ /\ BallotRestored
      /\ ContestRestored
      /\ (/\ last'.op = "store_new_decision" /\ last'.ok
          /\ digest(last'.arg) \in DOMAIN decision_db.data) =>
            /\ DOMAIN decision_db'.data = DOMAIN decision_db.data
            /\ \A a \in Voters :
                 digest(last'.arg) \in Range(get_decisions_by_voter(a)') =>
                   Occ(get_decisions_by_voter(a)', digest(last'.arg)) =
                     Occ(get_decisions_by_voter(a), digest(last'.arg)) + 1
            /\ \A c \in DigestArgs :
                 digest(last'.arg) \in Range(get_decisions_by_contest(c)') =>
                   Occ(get_decisions_by_contest(c)', digest(last'.arg)) =
                     Occ(get_decisions_by_contest(c), digest(last'.arg)) + 1
            /\ \A b \in DigestArgs :
                 digest(last'.arg) \in Range(get_decisions_by_ballot(b)') =>
                   Occ(get_decisions_by_ballot(b)', digest(last'.arg)) =
                     Occ(get_decisions_by_ballot(b), digest(last'.arg)) + 1
            /\ \A n \in Names :
                 digest(last'.arg) \in Range(get_decisions_with_write_in(n)') =>
                   Occ(get_decisions_with_write_in(n)', digest(last'.arg)) =
                     Occ(get_decisions_with_write_in(n), digest(last'.arg)) + 1
    ]_vars

\* C18 amended: storing a ballot or a contest again keeps a single record and
\* makes every matching ballot and contest query return the id once more;
\* storing a decision again keeps a single record and the by-voter,
\* by-contest and by-ballot queries go on returning its id once.
C18_RestoreDuplicatesMultimapsOnly ==
  [][ /\ BallotRestored
      /\ ContestRestored
      /\ (/\ last'.op = "store_new_decision" /\ last'.ok
          /\ digest(last'.arg) \in DOMAIN decision_db.data) =>
            /\ DOMAIN decision_db'.data = DOMAIN decision_db.data
            /\ \E a \in Voters :
                 Occ(get_decisions_by_voter(a)', digest(last'.arg)) = 1
            /\ \E c \in DigestArgs :
                 Occ(get_decisions_by_contest(c)', digest(last'.arg)) = 1
            /\ \E b \in DigestArgs :
                 Occ(get_decisions_by_ballot(b)', digest(last'.arg)) = 1
            /\ \A a \in Voters :
                 Occ(get_decisions_by_voter(a)', digest(last'.arg)) <= 1
            /\ \A c \in DigestArgs :
                 Occ(get_decisions_by_contest(c)', digest(last'.arg)) <= 1
            /\ \A b \in DigestArgs :
                 Occ(get_decisions_by_ballot(b)', digest(last'.arg)) <= 1
    ]_vars

C18_Witness ==
  /\ Open
  /\ last.op = "store_new_decision" /\ last.ok
  /\ prev.op = "store_new_decision" /\ prev.ok /\ prev.arg = last.arg
  /\ Len(get_decisions_by_contest(DefaultDecision.contest_id)) = 1
  /\ \E b \in Ballots : Occ(get_ballots_by_contest(1), ballot_id(b)) = 2
  /\ \E c \in Contests :
        Occ(get_contests_by_tags(region, north), contest_id(c)) = 2

\* an index state as sets of entries, insertion order and repeats dropped
EntrySets(ix) ==
  [decisions   |-> Range(ix.decision_index),
   write_ins   |-> Range(ix.write_in_index),
   ballots     |-> Range(ix.ballot_by_contest_index),
   contestants |-> Range(ix.contest_by_contestant_index),
   tags        |-> Range(ix.contest_tags_index)]

\* the result set of every query, read off sets of entries
QueryResultsFrom(E) ==
  [by_voter      |-> [a \in Voters |->
                        { e.id : e \in { x \in E.decisions : x.voter = a } }],
   by_contest    |-> [c \in DigestArgs |->
                        { e.id : e \in { x \in E.decisions : x.contest_id = c } }],
   by_ballot     |-> [b \in DigestArgs |->
                        { e.id : e \in { x \in E.decisions : x.ballot_id = b } }],
   write_ins     |-> { e[1] : e \in E.write_ins },
   with_write_in |-> [n \in Names |->
                        { e[2] : e \in { x \in E.write_ins : x[1] = n } }],
   ballots       |-> [c \in DigestArgs |->
                        { e[2] : e \in { x \in E.ballots : x[1] = c } }],
   tag_values    |-> [k \in TagKeys |->
                        { e.value : e \in { x \in E.tags : x.key = k } }],
   by_tags       |-> [kv \in TagKeys \X TagValues |->
                        { e.contest_id : e \in { x \in E.tags :
                            /\ x.key = kv[1]
                            /\ (kv[2] = EmptyStr \/ x.value = kv[2]) } }],
   by_contestant |-> [n \in Names |->
                        { e[2] : e \in { x \in E.contestants : x[1] = n } }]]

\* C19: whatever the order in which the records were stored, the entries of
\* every index are those of a rebuild in ascending identifier order, and so
\* is the result set of every query; open leaves exactly that rebuild.
C19_OrderIndependentIndex ==
  is_open =>
     /\ EntrySets(IndexState) = EntrySets(CleanRebuild)
     /\ QueryResults = QueryResultsFrom(EntrySets(CleanRebuild))
     /\ (last.op = "open" /\ last.ok) => IndexState = CleanRebuild

C19_Witness ==
  /\ Open
  /\ last.op \in StoreOps /\ last.ok
  /\ Cardinality(DOMAIN ballot_db.data) = 2
  /\ Cardinality(DOMAIN contest_db.data) = 2
  /\ Len(ballot_by_contest_index) = Len(CleanRebuild.ballot_by_contest_index)
  /\ ballot_by_contest_index # CleanRebuild.ballot_by_contest_index
  /\ Len(contest_tags_index) = Len(CleanRebuild.contest_tags_index)
  /\ contest_tags_index # CleanRebuild.contest_tags_index

\* C20: is_open() is true exactly when the three stores are open.
C20_FlagMatchesStores ==
  /\ is_open =>
        (decision_db.is_open /\ ballot_db.is_open /\ contest_db.is_open)
  /\ ~is_open =>
        (~decision_db.is_open /\ ~ballot_db.is_open /\ ~contest_db.is_open)

====
